---- MODULE Spec2Model ----
(***************************************************************************)
(* Model of asio's single-slot cancellation primitive                      *)
(* (asio/cancellation_signal.hpp): cancellation_signal owns at most one    *)
(* type-erased cancellation_handler record, cancellation_slot is a         *)
(* non-owning pointer to the signal's handler_ cell.                       *)
(*                                                                         *)
(* Memory is modelled explicitly: every ::operator new appends a block to  *)
(* heap (its index is its address, never reused), every ::operator delete  *)
(* is logged on the block, so that leaks, double frees and uses of a       *)
(* destroyed record are visible in the state.                              *)
(***************************************************************************)
EXTENDS Integers, Sequences, FiniteSets, TLC

\* ---- bounds ------------------------------------------------------------
MaxSize    == 3      \* sizeof(cancellation_handler<..>) ranges over 1..MaxSize
MaxEmplace == 3      \* emplace calls per run on a single signal
MaxEmplaceMulti == 2 \* emplace calls per run over several signals

Signals == {1, 2}    \* the cancellation_signal objects: one and another one
Slots   == {1, 2}    \* the caller's cancellation_slot variables
Sizes   == 1..MaxSize

\* Handler function objects supplied by the caller.  hA and hB do not touch
\* the signal; hClear calls clear() and hEmplace calls emplace() on a slot of
\* the signal that is invoking them.  hA and hEmplace are installed with the
\* context-carrying emplace<Context>(handler, args...), hB and hClear with
\* the context-free emplace(handler).
Handlers == {"hA", "hB", "hClear", "hEmplace"}
Reentrant == {"hClear", "hEmplace"}
Plain == Handlers \ Reentrant
WithContext(hd) == hd \in {"hA", "hEmplace"}

VARIABLES
  signal,    \* signal[i] = [alive, handler_, chain, installed]: cancellation_signal i
  slot,      \* slot[s]: cancellation_slot::handler_ (0 = null, else the signal whose cell it points to)
  origin,    \* origin[s]: signal whose slot() produced the value of slot s (0 = default-constructed)
  heap,      \* sequence of memory blocks handed out by ::operator new
  nEmplace,  \* number of emplace calls so far
  stack,     \* handler calls in progress (frames of emit -> call)
  last,      \* what the most recent operation did
  halt       \* "run", or how the program stopped: "assert" (assert(handler_)
             \* failed), "segv" (null dereference, assert compiled out), "ub"
             \* (a slot was used after its signal's destruction)

vars == <<signal, slot, origin, heap, nEmplace, stack, last, halt>>

NoRec == [h |-> "none", ctx |-> 0, size_ |-> 0, req |-> 0, id |-> 0, live |-> FALSE]

NoChain == [req |-> 0, ok |-> FALSE]

\* last: op, the signal reached (0: through a disconnected slot), outcome,
\* the value of the cell before (cur) and the capacity of the block it
\* pointed to (cap), the size required, the context
\* reference returned, ::operator new calls / blocks obtained / blocks
\* deleted by the operation, the emplace chain it continues, the handler
\* invocations an emit made, for clear and emit the operation on the same
\* signal they came directly after, and for emplace what the signal's cell
\* held and how many live records the signal had when create was entered
NoOp == [op |-> "init", sig |-> 0, status |-> "ok", cur |-> 0, cap |-> 0,
         req |-> 0,
         ret |-> 0, newCalls |-> 0, allocs |-> 0, frees |-> 0,
         chain |-> NoChain, invoked |-> <<>>, after |-> "-",
         atCtor |-> [cell |-> 0, live |-> 0]]

\* std::pair<void*, std::size_t> mem;  value-initialised: (null, 0)
NullMem == <<0, 0>>

\* ---- the heap ----------------------------------------------------------
RECURSIVE SumFrees(_, _)
SumFrees(h, n) == IF n = 0 THEN 0 ELSE Len(h[n].freedBy) + SumFrees(h, n - 1)
\* number of ::operator delete calls on non-null pointers so far
TotalFrees(h) == SumFrees(h, Len(h))

Blocks(h) == 1..Len(h)
IsFreed(h, b) == Len(h[b].freedBy) > 0

\* ::operator new(n) for a record of signal i: a fresh block at a fresh
\* address; size is the size of the allocation while it lasts
NewBlock(n, i) == [size |-> n, owner |-> i, freedBy |-> <<>>, rec |-> NoRec, uaf |-> FALSE]

\* ::operator delete(p), called from `by` while working on signal `via`;
\* deleting the null pointer does nothing
Free(h, b, by, via) ==
  IF b = 0 THEN h
  ELSE [h EXCEPT ![b].freedBy = Append(@, [by |-> by, via |-> via]),
                 ![b].size = 0]

\* destroy() that returns the memory without running the destructor
destroyWithoutDestructor(h, b) ==
  [heap |-> h, mem |-> <<b, h[b].rec.size_>>]

\* cancellation_handler::destroy(): remember (this, size_), run the
\* destructor in place, return the memory without freeing it
destroy(h, b) ==
  [heap |-> [h EXCEPT ![b].rec = NoRec,
                      ![b].uaf = @ \/ ~h[b].rec.live \/ IsFreed(h, b)],
   mem  |-> <<b, h[b].rec.size_>>]

\* a block of exactly the required size is thrown away too
NeedsFreshOrEqual(req, cap) == req >= cap

\* sizeof(cancellation_handler) > mem.second
NeedsFresh(req, cap) == req > cap

\* the block that is too small is dropped without ::operator delete
ReleaseOldSkipped(h, mem, i) == h

\* create, block too small: ::operator delete(mem.first) before the new block
ReleaseOld(h, mem, i) == Free(h, mem[1], "create", i)

\* catch (...) that rethrows without ::operator delete
OnCtorThrowLeak(h, blk, i) == h

\* create, catch (...): ::operator delete(mem.first); throw
OnCtorThrow(h, blk, i) == Free(h, blk, "create", i)

\* a record that remembers its own size instead of the size of its block
StoredSizeOwn(cap, req) == req

\* the size the constructor stores in size_: mem.second, the capacity of the
\* block the record is placed in
StoredSize(cap, req) == cap

\* cancellation_handler::create(mem, handler, args...).
\* allocOk: ::operator new returns (else throws std::bad_alloc);
\* ctorOk: the handler and context constructors return (else throw).
create(h, mem, i, hd, req, allocOk, ctorOk, id) ==
  LET fresh == NeedsFresh(req, mem[2])
      h1    == IF fresh THEN ReleaseOld(h, mem, i) ELSE h
  IN IF fresh /\ ~allocOk
     THEN [heap |-> h1, blk |-> 0, status |-> "bad_alloc", ret |-> 0,
           newCalls |-> 1, allocs |-> 0]
     ELSE
       LET h2  == IF fresh THEN Append(h1, NewBlock(req, i)) ELSE h1
           blk == IF fresh THEN Len(h2) ELSE mem[1]
           cap == IF fresh THEN req ELSE mem[2]
           n   == IF fresh THEN 1 ELSE 0
       IN IF ~ctorOk
          THEN [heap |-> OnCtorThrow(h2, blk, i), blk |-> 0,
                status |-> "ctor_throw", ret |-> 0, newCalls |-> n, allocs |-> n]
          ELSE [heap |-> [h2 EXCEPT
                            ![blk].rec = [h |-> hd, ctx |-> IF WithContext(hd) THEN id ELSE 0,
                                          size_ |-> StoredSize(cap, req),
                                          req |-> req, id |-> id,
                                          live |-> TRUE],
                            ![blk].uaf = @ \/ IsFreed(h2, blk)],
                blk |-> blk, status |-> "ok",
                ret |-> IF WithContext(hd) THEN id ELSE 0,
                newCalls |-> n, allocs |-> n]

\* call() that hands the handler no context (a default-constructed one)
callWithoutContext(rec) == <<[h |-> rec.h, ctx |-> 0]>>

\* the live handler records in the blocks of signal i
LiveRecs(h, i) ==
  Cardinality({b \in Blocks(h) : h[b].owner = i /\ h[b].rec.live})

\* cancellation_handler::call(): handler_(context_), or handler_() for the
\* context-free record (ctx = 0)
call(rec) == <<[h |-> rec.h, ctx |-> rec.ctx]>>

\* ---- slot queries -------------------------------------------------------
\* operator== that compares what the two cells hold instead of the cells
operator_eq_by_record(s, t) ==
  IF slot[s] # 0 /\ slot[t] # 0
  THEN signal[slot[s]].handler_ = signal[slot[t]].handler_
  ELSE slot[s] = slot[t]

\* operator==, operator!=: the handler_ members are compared
operator_eq(s, t) == slot[s] = slot[t]

operator_ne(s, t) == slot[s] # slot[t]

\* has_handler() that does not look into the cell
has_handler_ignores_cell(s) == slot[s] # 0

\* is_connected() that looks through the pointer
is_connected_to_handler(s) == slot[s] # 0 /\ signal[slot[s]].handler_ # 0

is_connected(s) == slot[s] # 0

has_handler(s) == slot[s] # 0 /\ signal[slot[s]].handler_ # 0

\* every slot reading one and the same cell, whichever signal it came from
ReadCellShared(i) == {signal[1].handler_}

\* Reading *handler_ through a slot.  While the signal lives this is its
\* handler_ member; after the signal's destruction the read is undefined
\* and yields either the stale pointer or zeroed storage.
ReadCell(i) ==
  IF signal[i].alive THEN {signal[i].handler_} ELSE {signal[i].handler_, 0}

\* what a re-entrant handler does to the signal that invokes it
HandlerOp(h) == IF h = "hClear" THEN "clear"
                ELSE IF h = "hEmplace" THEN "emplace" ELSE "none"

\* Code that may run now: anything when no handler is executing; while a
\* handler runs (emit has not returned) only that handler's own call.
Allowed(op, i) ==
  /\ halt = "run"
  /\ \/ stack = <<>>
     \/ /\ stack # <<>>
        /\ stack[Len(stack)].sig = i
        /\ ~stack[Len(stack)].done
        /\ HandlerOp(stack[Len(stack)].h) = op

\* the operation on signal i that came directly before, if it is one of ops
Following(i, ops) ==
  IF last.sig = i /\ last.op \in ops THEN last.op ELSE "-"

Enter == IF stack = <<>> THEN stack
         ELSE [stack EXCEPT ![Len(stack)].done = TRUE]

Init ==
  /\ signal = [i \in Signals |-> [alive |-> TRUE, handler_ |-> 0,
                                  chain |-> NoChain, installed |-> <<>>]]
  /\ slot = [s \in Slots |-> 0]
  /\ origin = [s \in Slots |-> 0]
  /\ heap = <<>>
  /\ nEmplace = 0
  /\ stack = <<>>
  /\ last = NoOp
  /\ halt = "run"

\* ---- cancellation_slot::emplace ------------------------------------------
\* emplace that forgets *handler_ = 0 after surrendering the old record
emplaceKeepsPointer(h, cur, i, hd, req, allocOk, ctorOk, id) ==
  LET d == IF cur # 0 THEN destroy(h, cur) ELSE [heap |-> h, mem |-> NullMem]
      c == create(d.heap, d.mem, i, hd, req, allocOk, ctorOk, id)
  IN [heap |-> c.heap,
      cell |-> IF c.status = "ok" THEN c.blk ELSE cur,
      status |-> c.status, ret |-> c.ret, cap |-> d.mem[2],
      newCalls |-> c.newCalls, allocs |-> c.allocs,
      frees |-> TotalFrees(c.heap) - TotalFrees(h),
      atCtor |-> [cell |-> cur, live |-> LiveRecs(d.heap, i)]]

\* emplace that builds the new record in memory of its own and gives up the
\* old one only once the new one stands
emplaceConstructsFirst(h, cur, i, hd, req, allocOk, ctorOk, id) ==
  LET c == create(h, NullMem, i, hd, req, allocOk, ctorOk, id)
      swap == cur # 0 /\ c.status = "ok"
      h2 == IF swap THEN Free(destroy(c.heap, cur).heap, cur, "create", i)
            ELSE c.heap
  IN [heap |-> h2,
      cell |-> IF c.status = "ok" THEN c.blk ELSE cur,
      status |-> c.status, ret |-> c.ret,
      cap |-> IF cur # 0 THEN h[cur].rec.size_ ELSE 0,
      newCalls |-> c.newCalls, allocs |-> c.allocs,
      frees |-> TotalFrees(h2) - TotalFrees(h),
      atCtor |-> [cell |-> cur, live |-> LiveRecs(h, i)]]

\* body of emplace after the assert: surrender the installed record, clear
\* the cell, create the new record in the surrendered memory, install it
emplaceBody(h, cur, i, hd, req, allocOk, ctorOk, id) ==
  LET d == IF cur # 0 THEN destroy(h, cur) ELSE [heap |-> h, mem |-> NullMem]
      cell0 == IF cur # 0 THEN 0 ELSE cur           \* *handler_ = 0
      c == create(d.heap, d.mem, i, hd, req, allocOk, ctorOk, id)
  IN [heap |-> c.heap,
      cell |-> IF c.status = "ok" THEN c.blk ELSE cell0,  \* *handler_ = handler_obj
      status |-> c.status, ret |-> c.ret, cap |-> d.mem[2],
      newCalls |-> c.newCalls, allocs |-> c.allocs,
      frees |-> TotalFrees(c.heap) - TotalFrees(h),
      atCtor |-> [cell |-> cell0, live |-> LiveRecs(d.heap, i)]]

\* no check at all: emplace on a null handler_ just returns
AssertSkipped == {"run"}

\* assert(handler_) on a null handler_: the assertion aborts the program;
\* compiled with NDEBUG the following *handler_ reads through the null pointer
AssertFails == {"assert", "segv"}

\* a slot operation on signal i leaves the program running only if i lives
After(i) == IF signal[i].alive THEN "run" ELSE "ub"

emplace(s, hd, req, allocOk, ctorOk) ==
  /\ nEmplace' = nEmplace + 1
  /\ IF slot[s] = 0
     THEN \* assert(handler_) fails; with assert compiled out, *handler_
          \* dereferences the null pointer
       /\ halt = "run" /\ stack = <<>>
       /\ halt' \in AssertFails
       /\ allocOk /\ ctorOk               \* nothing is allocated or constructed
       /\ last' = [NoOp EXCEPT !.op = "emplace", !.status = halt', !.req = req]
       /\ UNCHANGED <<signal, slot, origin, heap, stack>>
     ELSE
       LET i == slot[s] IN
       /\ Allowed("emplace", i)
       /\ \E cur \in ReadCell(i) :
            LET r == emplaceBody(heap, cur, i, hd, req, allocOk, ctorOk,
                                 nEmplace + 1)
            IN /\ allocOk \/ r.newCalls = 1  \* only a call of ::operator new can throw
               /\ heap' = r.heap
               /\ signal' = [signal EXCEPT
                    ![i].handler_ = r.cell,
                    ![i].chain = [req |-> req, ok |-> r.status = "ok"],
                    ![i].installed = IF r.status = "ok"
                                     THEN <<[h |-> hd, ctx |-> r.ret]>> ELSE <<>>]
               /\ last' = [op |-> "emplace", sig |-> i, status |-> r.status,
                           cur |-> cur, cap |-> r.cap, req |-> req,
                           ret |-> r.ret,
                           newCalls |-> r.newCalls, allocs |-> r.allocs,
                           frees |-> r.frees, chain |-> signal[i].chain,
                           invoked |-> <<>>, after |-> "-",
                           atCtor |-> r.atCtor]
       /\ halt' = After(i)
       /\ stack' = Enter
       /\ UNCHANGED <<slot, origin>>

\* ---- cancellation_slot::clear --------------------------------------------
\* clear() that forgets *handler_ = 0
clearKeepsPointer(h, cur, i) ==
  IF cur # 0
  THEN LET d == destroy(h, cur)
       IN [heap |-> Free(d.heap, d.mem[1], "clear", i), cell |-> cur]
  ELSE [heap |-> h, cell |-> signal[i].handler_]

\* clear() that surrenders the record and leaves the block to the signal
clearWithoutDelete(h, cur, i) ==
  IF cur # 0
  THEN [heap |-> destroy(h, cur).heap, cell |-> 0]
  ELSE [heap |-> h, cell |-> signal[i].handler_]

clearBody(h, cur, i) ==
  IF cur # 0
  THEN LET d == destroy(h, cur)
       IN [heap |-> Free(d.heap, d.mem[1], "clear", i), cell |-> 0]
  ELSE [heap |-> h, cell |-> signal[i].handler_]

clear(s) ==
  IF slot[s] = 0
  THEN \* handler_ != 0 is false: nothing happens
    /\ halt = "run" /\ stack = <<>>
    /\ last' = [NoOp EXCEPT !.op = "clear", !.status = "noop"]
    /\ UNCHANGED <<signal, slot, origin, heap, nEmplace, stack, halt>>
  ELSE
    LET i == slot[s] IN
    /\ Allowed("clear", i)
    /\ \E cur \in ReadCell(i) :
         LET r == clearBody(heap, cur, i)
         IN /\ heap' = r.heap
            /\ signal' = [signal EXCEPT ![i].handler_ = r.cell,
                                        ![i].chain = NoChain,
                                        ![i].installed = <<>>]
            /\ last' = [NoOp EXCEPT
                        !.op = "clear", !.sig = i,
                        !.status = IF cur # 0 THEN "ok" ELSE "noop",
                        !.cur = cur,
                        !.frees = TotalFrees(r.heap) - TotalFrees(heap),
                        !.after = Following(i, {"clear"})]
    /\ halt' = After(i)
    /\ stack' = Enter
    /\ UNCHANGED <<slot, origin, nEmplace>>

\* ---- cancellation_signal ---------------------------------------------------
\* emit that calls through the cell without testing it
emitWithoutCheck(h, b) ==
  [heap |-> h, invoked |-> call(IF b # 0 THEN h[b].rec ELSE NoRec)]

\* emit that destroys the record once it has been called
emitOneShot(h, b) ==
  [heap |-> IF b # 0 THEN destroy(h, b).heap ELSE h,
   invoked |-> IF b # 0 THEN call(h[b].rec) ELSE <<>>]

\* body of emit: if (handler_) handler_->call()
emitBody(h, b) ==
  [heap |-> h, invoked |-> IF b # 0 THEN call(h[b].rec) ELSE <<>>]

\* emit().  A handler that does not touch the signal runs to completion
\* here; a re-entrant one stays on the stack until Return.
emit(i) ==
  /\ halt = "run" /\ stack = <<>>
  /\ signal[i].alive
  /\ LET b == signal[i].handler_
         r == emitBody(heap, b) IN
     /\ heap' = r.heap
     /\ stack' = IF b # 0 /\ heap[b].rec.h \in Reentrant
                 THEN <<[sig |-> i, blk |-> b, id |-> heap[b].rec.id,
                         h |-> heap[b].rec.h, done |-> FALSE]>>
                 ELSE stack
     /\ last' = [NoOp EXCEPT
                  !.op = "emit", !.sig = i,
                  !.status = IF b # 0 THEN "ok" ELSE "noop",
                  !.cur = b,
                  !.invoked = r.invoked,
                  !.after = Following(i, {"emit", "emplace"})]
  /\ UNCHANGED <<signal, slot, origin, nEmplace, halt>>

\* the handler invoked by emit returns
Return ==
  /\ halt = "run" /\ stack # <<>>
  /\ stack' = SubSeq(stack, 1, Len(stack) - 1)
  /\ UNCHANGED <<signal, slot, origin, heap, nEmplace, last, halt>>

\* ~cancellation_signal(): if (handler_) ::operator delete(handler_->destroy().first)
\* The member is not reset: the dead storage keeps the stale pointer.
dtorWithoutDelete(h, cur, i) ==
  IF cur # 0 THEN destroy(h, cur).heap ELSE h

dtorBody(h, cur, i) ==
  IF cur # 0
  THEN LET d == destroy(h, cur)
       IN Free(d.heap, d.mem[1], "~cancellation_signal", i)
  ELSE h

Destroy(i) ==
  /\ halt = "run" /\ stack = <<>>
  /\ signal[i].alive
  /\ heap' = dtorBody(heap, signal[i].handler_, i)
  /\ signal' = [signal EXCEPT ![i].alive = FALSE]
  /\ last' = [NoOp EXCEPT
               !.op = "~cancellation_signal", !.sig = i,
               !.cur = signal[i].handler_,
               !.frees = TotalFrees(heap') - TotalFrees(heap)]
  /\ UNCHANGED <<slot, origin, nEmplace, stack, halt>>

\* cancellation_signal::slot(): s = S.slot()
GetSlot(s, i) ==
  /\ halt = "run" /\ stack = <<>>
  /\ signal[i].alive
  /\ slot' = [slot EXCEPT ![s] = i]
  /\ origin' = [origin EXCEPT ![s] = i]
  /\ last' = [NoOp EXCEPT !.op = "slot"]
  /\ UNCHANGED <<signal, heap, nEmplace, stack, halt>>

\* copy of a slot (implicit copy constructor / assignment): s = t
CopySlot(s, t) ==
  /\ halt = "run" /\ stack = <<>>
  /\ s # t
  /\ slot' = [slot EXCEPT ![s] = slot[t]]
  /\ origin' = [origin EXCEPT ![s] = origin[t]]
  /\ last' = [NoOp EXCEPT !.op = "slot"]
  /\ UNCHANGED <<signal, heap, nEmplace, stack, halt>>

\* what goes wrong inside an emplace call: nothing, ::operator new throws,
\* or a constructor throws
Failures == {"none", "alloc", "ctor"}

\* The program: a caller driving the signals in `sigs` through at most
\* `limit` emplace calls with handlers from `hs` whose records have a size
\* in `sizes`.
Run(sigs, hs, sizes, limit) ==
  \/ \E s \in Slots, hd \in hs, req \in sizes, fail \in Failures :
        /\ nEmplace < limit
        /\ slot[s] \in sigs \cup {0}
        /\ emplace(s, hd, req, fail # "alloc", fail # "ctor")
  \/ \E s \in Slots : clear(s)
  \/ \E i \in sigs : emit(i)
  \/ \E i \in sigs : Destroy(i)
  \/ \E s \in Slots, i \in sigs : GetSlot(s, i)
  \/ \E s, t \in Slots : CopySlot(s, t)

\* one signal, handlers that leave it alone or call back into it: a
\* re-entrant handler stays on the stack until it returns
Next == Run({1}, {"hA"} \cup Reentrant, Sizes, MaxEmplace) \/ Return
Spec == Init /\ [][Next]_vars

\* several signals side by side, handlers that leave the signal alone, a
\* small and a large record
NextMulti == Run(Signals, Plain, {1, MaxSize}, MaxEmplaceMulti)
SpecMulti == Init /\ [][NextMulti]_vars

\* ======================= properties ======================================
Running == halt = "run"
\* no slot has been used after the destruction of its signal
NoMisuse == halt # "ub"

FreedOnce(b) == Len(heap[b].freedBy) = 1
Unfreed(b) == Len(heap[b].freedBy) = 0
OwnedBy(i) == {b \in Blocks(heap) : heap[b].owner = i}

\* C1: after a successful emplace(H, args...) with no emplace or clear since,
\* emit() invokes exactly H, exactly once, and hands it the context object
\* whose reference that emplace returned.
C1_EmitInvokesInstalled ==
  (last.op = "emit" /\ signal[last.sig].installed # <<>>)
     => last.invoked = signal[last.sig].installed

C1_Witness ==
  /\ last.op = "emit"
  /\ signal[last.sig].installed # <<>>
  /\ signal[last.sig].installed[1].ctx # 0
  /\ Len(last.invoked) = 1
  /\ nEmplace >= 2

\* C2: as long as no slot is used after its signal's destruction, no block
\* is freed twice and no destroyed record is invoked, surrendered or
\* overwritten in freed memory.
C2_NoDoubleFreeNoUseAfterDestroy ==
  NoMisuse => \A b \in Blocks(heap) :
                 /\ Len(heap[b].freedBy) <= 1
                 /\ ~heap[b].uaf

C2_Witness ==
  /\ Running
  /\ ~signal[1].alive
  /\ last.op = "~cancellation_signal" /\ last.frees = 1
  /\ Len(heap) = 3
  /\ \A b \in Blocks(heap) : FreedOnce(b)
  /\ {heap[b].freedBy[1].by : b \in Blocks(heap)}
        = {"create", "clear", "~cancellation_signal"}

\* C3: once a signal is destroyed, every block allocated for it has been
\* freed exactly once (allocations = frees); the destructor itself frees one
\* block if a record was installed and none otherwise.
C3_DestructionBalancesHeap ==
  /\ \A i \in Signals :
       (NoMisuse /\ ~signal[i].alive) => \A b \in OwnedBy(i) : FreedOnce(b)
  /\ last.op = "~cancellation_signal"
       => /\ last.frees = (IF last.cur # 0 THEN 1 ELSE 0)
          /\ last.cur # 0 => heap[last.cur].freedBy
                               = <<[by |-> "~cancellation_signal", via |-> last.sig]>>

C3_Witness ==
  /\ last.op = "~cancellation_signal" /\ last.cur # 0 /\ last.frees = 1
  /\ Len(heap) >= 2
  /\ \A b \in Blocks(heap) : FreedOnce(b)
  /\ nEmplace = 3

\* the most recent operation is an emplace that reached the body
Emplaced == last.op = "emplace" /\ last.sig # 0 /\ Running
\* the step is an emplace call
EmplaceStep == nEmplace' = nEmplace + 1

\* C4 as stated: an emplace that follows an emplace of at least its size on
\* the same signal, with no clear in between, neither calls the allocator
\* nor frees anything - whether or not the calls succeed.
C4_Original ==
  (Emplaced /\ last.chain.req # 0 /\ last.req <= last.chain.req)
     => (last.newCalls = 0 /\ last.frees = 0)

\* C4 amended: in a run of emplace calls on the same signal with no clear in
\* between, the first one calls the allocator; an emplace that follows a
\* successful emplace of at least its size never calls the allocator, and
\* frees nothing if it succeeds itself.
C4_ReuseWithoutAllocation ==
  /\ (Emplaced /\ last.chain = NoChain /\ last.cur = 0) => last.newCalls = 1
  /\ (Emplaced /\ last.chain.ok /\ last.req <= last.chain.req)
       => /\ last.newCalls = 0 /\ last.allocs = 0
          /\ last.status = "ok" => last.frees = 0

C4_Witness ==
  /\ Emplaced /\ last.status = "ok"
  /\ last.chain.ok /\ last.req < last.chain.req
  /\ last.newCalls = 0 /\ last.frees = 0
  /\ nEmplace = 3 /\ Len(heap) = 1

\* C5: an emplace that replaces a record in a block of capacity N by a
\* record requiring M > N calls the allocator once and frees the old block,
\* once; when it succeeds that is its only allocation and its only free and
\* the new record sits in a fresh block of size M.  A block released this
\* way stays freed exactly once and is never installed again.
C5_GrowAllocatesOnceFreesOnce ==
  /\ (Emplaced /\ last.cur # 0 /\ last.req > last.cap)
       => /\ last.newCalls = 1
          /\ heap[last.cur].freedBy = <<[by |-> "create", via |-> last.sig]>>
          /\ last.status = "ok"
               => /\ last.allocs = 1 /\ last.frees = 1
                  /\ signal[last.sig].handler_ \notin {0, last.cur}
                  /\ heap[signal[last.sig].handler_].size = last.req
                  /\ Unfreed(signal[last.sig].handler_)
  /\ NoMisuse =>
       \A b \in Blocks(heap) :
          (~Unfreed(b) /\ heap[b].freedBy[1].by = "create")
            => /\ FreedOnce(b)
               /\ \A i \in Signals : signal[i].alive => signal[i].handler_ # b

C5_Witness ==
  /\ Emplaced /\ last.cur # 0 /\ last.req > last.cap /\ last.status = "ok"
  /\ last.allocs = 1 /\ last.frees = 1
  /\ FreedOnce(last.cur)

Failed == Emplaced /\ last.status \in {"bad_alloc", "ctor_throw"}

C6_State ==
  Failed =>
    /\ signal[last.sig].handler_ = 0
    /\ \A b \in OwnedBy(last.sig) : FreedOnce(b)
    /\ last.frees = last.allocs + (IF last.cur # 0 THEN 1 ELSE 0)
    /\ \A s \in Slots : slot[s] = last.sig => is_connected(s) /\ ~has_handler(s)

C6_NextEmit ==
  (Failed /\ last'.op = "emit" /\ last'.sig = last.sig)
    => /\ last'.invoked = <<>> /\ last'.status = "noop"
       /\ UNCHANGED <<signal, heap, stack, halt>>

C6_NextEmplace ==
  (Failed /\ EmplaceStep /\ last'.sig = last.sig /\ halt' = "run")
    => last'.cur = 0 /\ last'.cap = 0 /\ last'.newCalls = 1

\* C6: an emplace that fails (bad_alloc or a throwing constructor) leaves the
\* exception with its caller, every block it touched freed exactly once and
\* no block of the signal alive, the slot connected and without handler; the
\* next emit invokes nothing and the next emplace starts from the null block.
C6_FailedEmplaceLeavesEmpty ==
  [](C6_State) /\ [][C6_NextEmit /\ C6_NextEmplace]_vars

C6_Witness ==
  /\ Failed /\ last.status = "ctor_throw"
  /\ last.cur # 0 /\ last.allocs = 1 /\ last.frees = 2
  /\ \E s \in Slots : slot[s] = last.sig

\* C7 as stated: after an emplace in which ::operator new threw, has_handler()
\* and the handler emit would invoke are what they were before the call.
C7_Original ==
  (Emplaced /\ last.status = "bad_alloc")
     => ((signal[last.sig].handler_ # 0) = (last.cur # 0))

C7_State ==
  (Emplaced /\ last.status = "bad_alloc")
     => /\ signal[last.sig].handler_ = 0
        /\ last.newCalls = 1 /\ last.allocs = 0
        /\ last.cur # 0 => /\ heap[last.cur].rec = NoRec
                            /\ FreedOnce(last.cur)
                            /\ last.frees = 1

C7_Step ==
  (EmplaceStep /\ last'.status = "bad_alloc" /\ last'.cur = 0 /\ halt' = "run")
     => /\ heap' = heap
        /\ signal'[last'.sig].handler_ = signal[last'.sig].handler_

\* C7 amended: when ::operator new throws inside emplace the bad_alloc
\* reaches the caller and no handler is installed afterwards; heap and cell
\* are unchanged only if no handler was installed before, otherwise the old
\* handler has been destroyed and its block freed.
C7_BadAllocLeavesNoHandler ==
  [](C7_State) /\ [][C7_Step]_vars

C7_Witness ==
  /\ Emplaced /\ last.status = "bad_alloc" /\ last.cur # 0
  /\ signal[last.sig].handler_ = 0
  /\ FreedOnce(last.cur)

\* the most recent operation went through a disconnected slot
OnDisconnected(op) == last.op = op /\ last.sig = 0

\* C8 as stated: neither emplace nor clear on a disconnected slot ever
\* completes; both end on the precondition-violation path.
C8_Original ==
  (OnDisconnected("emplace") \/ OnDisconnected("clear")) => halt # "run"

C8_State ==
  /\ OnDisconnected("emplace") => halt \in {"assert", "segv"} /\ last.status = halt
  /\ OnDisconnected("clear") => halt = "run" /\ last.status = "noop" /\ last.frees = 0

C8_Step ==
  /\ (last'.op = "emplace" /\ last'.sig = 0)
        => halt' # "run" /\ UNCHANGED <<signal, slot, origin, heap, stack>>
  /\ (last'.op = "clear" /\ last'.sig = 0)
        => UNCHANGED <<signal, slot, origin, heap, stack, nEmplace, halt>>

\* C8 amended: emplace on a disconnected slot never completes: assert(handler_)
\* stops the program (with assertions compiled out the call reads through the
\* null pointer instead) and nothing has been changed; clear on a
\* disconnected slot completes as a no-op that changes nothing.
C8_DisconnectedSlot ==
  [](C8_State) /\ [][C8_Step]_vars

C8_Witness ==
  /\ OnDisconnected("emplace") /\ halt = "assert"
  /\ \E s \in Slots : ~is_connected(s)
  /\ \E s \in Slots : has_handler(s)

\* C9 as stated: every block is freed by the signal's destructor, never by
\* an operation of a slot.
C9_Original ==
  \A b \in Blocks(heap) : \A k \in 1..Len(heap[b].freedBy) :
     heap[b].freedBy[k].by = "~cancellation_signal"

\* C9 amended: a record's block is freed only through the cell of the signal
\* it was allocated for - by that signal's destructor (the record then still
\* installed) or by clear()/emplace() on a slot of that signal - and by
\* exactly one of them: never twice, and not at all while it is installed in
\* a live signal; once the signal is destroyed every block of it is freed.
C9_FreedThroughOwnerOnce ==
  /\ \A b \in Blocks(heap) : \A k \in 1..Len(heap[b].freedBy) :
       LET e == heap[b].freedBy[k] IN
       /\ e.via = heap[b].owner
       /\ e.by \in {"~cancellation_signal", "clear", "create"}
       /\ e.by = "~cancellation_signal" => ~signal[heap[b].owner].alive
  /\ NoMisuse =>
       /\ \A b \in Blocks(heap) :
            /\ Len(heap[b].freedBy) <= 1
            /\ ~signal[heap[b].owner].alive => FreedOnce(b)
       /\ \A i \in Signals :
            (signal[i].alive /\ signal[i].handler_ # 0)
              => /\ Unfreed(signal[i].handler_)
                 /\ heap[signal[i].handler_].owner = i

C9_Witness ==
  /\ NoMisuse
  /\ \E b1, b2 \in Blocks(heap) :
       /\ heap[b1].owner = 1 /\ heap[b2].owner = 2
       /\ heap[b1].freedBy = <<[by |-> "clear", via |-> 1]>>
       /\ heap[b2].freedBy = <<[by |-> "~cancellation_signal", via |-> 2]>>

\* the slot's value comes from a slot() call (directly or by copy)
FromSignal(s) == origin[s] # 0

\* C10 as stated: is_connected() is true exactly for a slot obtained from a
\* signal that has not been destroyed.
C10_Original ==
  \A s \in Slots :
     is_connected(s) <=> (FromSignal(s) /\ signal[origin[s]].alive)

\* C10 amended: is_connected() is true exactly for a slot whose value was
\* obtained from a signal's slot() call, whether or not that signal has been
\* destroyed since; it is false for a default-constructed slot.
C10_ConnectedIffFromSlotCall ==
  \A s \in Slots : is_connected(s) <=> FromSignal(s)

C10_Witness ==
  /\ \E s \in Slots : FromSignal(s) /\ ~signal[origin[s]].alive /\ is_connected(s)
  /\ \E s \in Slots : ~FromSignal(s) /\ ~is_connected(s)

\* the most recent operation is a clear() through a connected slot
Cleared == last.op = "clear" /\ last.sig # 0 /\ Running

C11_State ==
  Cleared =>
    /\ signal[last.sig].handler_ = 0
    /\ \A s \in Slots : slot[s] = last.sig => is_connected(s) /\ ~has_handler(s)
    /\ last.frees = (IF last.cur # 0 THEN 1 ELSE 0)
    /\ last.cur # 0 => heap[last.cur].freedBy = <<[by |-> "clear", via |-> last.sig]>>

C11_NextEmit ==
  (Cleared /\ last'.op = "emit" /\ last'.sig = last.sig)
     => last'.invoked = <<>> /\ last'.status = "noop" /\ stack' = <<>>

\* C11: after clear() through a connected slot, whatever was installed, the
\* slot is connected and has no handler, the surrendered block (if any) has
\* been freed exactly once, by that clear, and the next emit() of the signal
\* invokes nothing.
C11_ClearLeavesConnectedEmpty ==
  [](C11_State) /\ [][C11_NextEmit]_vars

C11_Witness ==
  /\ Cleared /\ last.cur # 0 /\ last.frees = 1
  /\ FreedOnce(last.cur)
  /\ \E s \in Slots : slot[s] = last.sig /\ is_connected(s) /\ ~has_handler(s)

\* C12: a clear() that directly follows a clear() on the same signal changes
\* nothing - cell, heap (allocations and frees), slots - frees nothing and
\* completes normally.
C12_ClearIdempotent ==
  [][(Cleared /\ stack = <<>> /\ last'.op = "clear" /\ last'.sig = last.sig)
       => /\ last'.status = "noop" /\ last'.frees = 0 /\ last'.cur = 0
          /\ halt' = "run"
          /\ UNCHANGED <<signal, heap, slot, origin, nEmplace, stack>>]_vars

C12_Witness ==
  /\ Cleared /\ last.after = "clear" /\ last.status = "noop"
  /\ \E b \in Blocks(heap) :
       heap[b].freedBy = <<[by |-> "clear", via |-> last.sig]>>

\* C13: emit() on a signal whose cell is empty - never filled, cleared, or
\* left empty by a failed emplace - invokes no handler and changes neither
\* the signal, the slots nor the heap.
C13_EmitOnEmptyIsNoOp ==
  [][(stack = <<>> /\ last'.op = "emit" /\ signal[last'.sig].handler_ = 0)
       => /\ last'.invoked = <<>> /\ last'.status = "noop"
          /\ UNCHANGED <<signal, slot, origin, heap, nEmplace, stack, halt>>]_vars

\* an emit that found the cell left empty by a failed emplace
C13_Witness ==
  /\ last.op = "emit" /\ last.status = "noop" /\ last.after = "emplace"
  /\ ~signal[last.sig].chain.ok /\ signal[last.sig].chain.req # 0
  /\ last.invoked = <<>> /\ Running

\* C14: two slots compare equal exactly when they were obtained (by slot()
\* or by copy) from the same signal, or both from none; slots of distinct
\* signals, and a connected and a disconnected slot, compare not-equal;
\* operator!= is the negation of operator==.
C14_SlotEquality ==
  \A s, t \in Slots :
    /\ operator_eq(s, t) <=> (origin[s] = origin[t])
    /\ operator_ne(s, t) <=> ~operator_eq(s, t)

C14_Witness ==
  /\ last.op = "slot"
  /\ \E s, t \in Slots :
       /\ FromSignal(s) /\ FromSignal(t) /\ origin[s] # origin[t]
       /\ operator_ne(s, t) /\ ~operator_eq(s, t)
       /\ operator_eq(s, s) /\ ~has_handler(s) /\ ~has_handler(t)

\* the most recent operation is an emplace that found a record installed
Replacing == Emplaced /\ last.cur # 0

\* C15: in a replacing emplace the old record has been destroyed and the
\* signal's cell set to empty by the time create is entered, so the new
\* record is constructed while the signal has no live record; no signal
\* ever has two live records, and a record found in the old block after the
\* emplace is the new one.
C15_OldDestroyedBeforeNewConstructed ==
  /\ \A i \in Signals : LiveRecs(heap, i) <= 1
  /\ Replacing =>
       /\ last.atCtor = [cell |-> 0, live |-> 0]
       /\ heap[last.cur].rec.live => heap[last.cur].rec.id = nEmplace
       /\ LiveRecs(heap, last.sig) = (IF last.status = "ok" THEN 1 ELSE 0)

C15_Witness ==
  /\ Replacing /\ last.status = "ok"
  /\ last.atCtor = [cell |-> 0, live |-> 0]
  /\ LiveRecs(heap, last.sig) = 1
  /\ signal[last.sig].handler_ # 0

\* C16: the capacity stored in a live record is the size its block was
\* allocated with and is at least the size of the record; emplace calls the
\* allocator exactly when no record is installed or the new record is larger
\* than the capacity the surrendered record stored; a record placed in the
\* surrendered block stores the same capacity again.
C16_CapacityCarried ==
  /\ \A b \in Blocks(heap) :
       heap[b].rec.live =>
         /\ heap[b].rec.size_ = heap[b].size
         /\ heap[b].rec.req <= heap[b].rec.size_
  /\ Emplaced =>
       /\ last.newCalls = (IF last.cur = 0 \/ last.req > last.cap THEN 1 ELSE 0)
       /\ (last.newCalls = 0 /\ last.status = "ok") =>
            /\ signal[last.sig].handler_ = last.cur
            /\ heap[last.cur].rec.size_ = last.cap
            /\ last.allocs = 0 /\ last.frees = 0

\* sizes 3, 1, 2 emplaced in a row: one block, allocated by the first
C16_Witness ==
  /\ Emplaced /\ nEmplace = 3 /\ Len(heap) = 1 /\ last.status = "ok"
  /\ last.chain = [req |-> 1, ok |-> TRUE]
  /\ last.req = 2 /\ last.cap = 3 /\ last.newCalls = 0
  /\ heap[1].size = 3 /\ heap[1].rec.size_ = 3 /\ heap[1].rec.req = 2

\* signal i has a record installed whose handler does not touch the signal
PlainInstalled(i) ==
  /\ signal[i].handler_ # 0
  /\ heap[signal[i].handler_].rec.h \notin Reentrant

C17_Emit ==
  (stack = <<>> /\ last'.op = "emit" /\ PlainInstalled(last'.sig))
     => /\ last'.status = "ok" /\ last'.cur = signal[last'.sig].handler_
        /\ last'.invoked = call(heap[last'.cur].rec)
        /\ last'.invoked = signal[last'.sig].installed
        /\ \A s \in Slots : slot[s] = last'.sig => has_handler(s)'
        /\ UNCHANGED <<signal, slot, origin, heap, nEmplace, stack, halt>>

C17_EmitAgain ==
  (stack = <<>> /\ last.op = "emit" /\ PlainInstalled(last.sig)
     /\ last'.op = "emit" /\ last'.sig = last.sig)
     => last'.invoked = last.invoked /\ last'.cur = last.cur

\* C17: emit() that invokes a handler which does not touch the signal leaves
\* the record installed and untouched - same cell, same record and capacity,
\* nothing allocated or freed, has_handler() true - and a further emit()
\* invokes the same handler with the same context.
C17_EmitKeepsHandler ==
  [][C17_Emit /\ C17_EmitAgain]_vars

\* a second emit in a row has invoked the installed handler again
C17_Witness ==
  /\ last.op = "emit" /\ last.after = "emit" /\ last.status = "ok"
  /\ stack = <<>> /\ Running /\ PlainInstalled(last.sig)
  /\ last.invoked = call(heap[last.cur].rec)
  /\ heap[last.cur].rec.live /\ Unfreed(last.cur)

\* the blocks of signal j and its cell are the same before and after a step
Untouched(j) ==
  /\ signal'[j] = signal[j]
  /\ \A b \in Blocks(heap) : heap[b].owner = j => heap'[b] = heap[b]

C18_Change ==
  \A i \in Signals :
    (last'.op \in {"emplace", "clear"} /\ last'.sig = i /\ halt' = "run")
      => /\ \A s \in Slots :
              slot[s] = i =>
                (has_handler(s)' <=> (last'.op = "emplace" /\ last'.status = "ok"))
         /\ \A s \in Slots :
              slot[s] \notin {0, i} => (has_handler(s)' <=> has_handler(s))
         /\ \A j \in Signals \ {i} : Untouched(j)
         /\ signal'[i].installed =
              (IF signal'[i].handler_ # 0
               THEN call(heap'[signal'[i].handler_].rec) ELSE <<>>)

C18_Emit ==
  (last'.op = "emit" /\ halt' = "run")
     => /\ last'.invoked = signal[last'.sig].installed
        /\ \A j \in Signals : Untouched(j)

\* C18: emplace or clear through any slot of a signal is seen at once by
\* has_handler() of every slot of that signal and fixes what the signal's
\* next emit() invokes; has_handler(), the cell, the blocks and emit() of
\* every other signal are unaffected.
C18_SlotsShareOneCell ==
  [][C18_Change /\ C18_Emit]_vars

\* an emplace through one of two slots of a signal, seen by both, while
\* another signal keeps its handler
C18_Witness ==
  /\ Emplaced /\ last.status = "ok"
  /\ \A s \in Slots : slot[s] = last.sig /\ has_handler(s)
  /\ \E j \in Signals \ {last.sig} : signal[j].alive /\ signal[j].handler_ # 0

\* the blocks allocated for signal i and not freed
Held(i) == {b \in OwnedBy(i) : Unfreed(b)}

\* C19: a live signal holds exactly one allocated, not yet freed block when a
\* handler is installed - the block of the installed record - and none
\* otherwise; never more than one, also after an emplace that failed.
C19_OneBlockIffInstalled ==
  \A i \in Signals :
    (signal[i].alive /\ NoMisuse) =>
      /\ Held(i) = (IF signal[i].handler_ # 0 THEN {signal[i].handler_} ELSE {})
      /\ Cardinality(Held(i)) <= 1

\* after a failed replacing emplace: blocks were allocated, none is held
C19_Witness ==
  /\ Failed /\ last.cur # 0 /\ stack = <<>>
  /\ signal[last.sig].alive /\ signal[last.sig].handler_ = 0
  /\ OwnedBy(last.sig) # {} /\ Held(last.sig) = {}

\* the call emit has in progress, and whether its record still stands
InCall == stack # <<>> /\ Running
Top == stack[Len(stack)]
TopStands == heap[Top.blk].rec.live /\ heap[Top.blk].rec.id = Top.id

\* C20: nothing guards a handler against itself.  Until the handler invoked
\* by emit() calls clear() or emplace() on its own signal its record stands;
\* once it has, and before the call returns, that record has been destroyed,
\* and its block freed if the call was clear(), an emplace that needed a
\* larger block, or an emplace whose constructor threw; a smaller emplace has
\* built the new record in the block of the handler that is executing.
C20_ReentrantCallDestroysRunningRecord ==
  InCall =>
    /\ ~Top.done => TopStands /\ Unfreed(Top.blk)
                    /\ signal[Top.sig].handler_ = Top.blk
    /\ Top.done =>
         /\ last.op = HandlerOp(Top.h) /\ last.sig = Top.sig
         /\ last.cur = Top.blk
         /\ ~TopStands
         /\ (last.op = "clear" \/ last.newCalls = 1 \/ last.status = "ctor_throw")
              <=> FreedOnce(Top.blk)
         /\ Unfreed(Top.blk) =>
              /\ signal[Top.sig].handler_ = Top.blk
              /\ heap[Top.blk].rec.id = nEmplace

\* a handler still executing whose record is destroyed and whose block is freed
C20_Witness ==
  /\ InCall /\ Top.done /\ ~TopStands
  /\ FreedOnce(Top.blk) /\ last.op = "clear"
  /\ signal[Top.sig].handler_ = 0
====
